---- MODULE Spec2Model ----
(***************************************************************************)
(* Model of the Pi-Qualytics sample data generators:                       *)
(*   src/Sampledata.py                       (the defect variant)          *)
(*   src/scripts/generate_pure_sample_data.py (the pure variant)           *)
(* Strings are TLA+ strings (built with \o, read with Len and SubSeq).     *)
(* Floating-point amounts are integers in thousandths (amounts, balances)  *)
(* or millionths (FX rates); the "%.2f" / "%.6f" formatting and float()    *)
(* parsing are modelled as the conversions they are.                       *)
(***************************************************************************)
EXTENDS Integers, Sequences, FiniteSets, TLC

(***************************************************************************)
(* Bounds of the model.                                                    *)
(***************************************************************************)
\* largest customer count a run is started with
MaxCount == 1
\* largest transactions-per-account, balance window and FX window of a run
MaxTpa == 2
MaxDays == 3
MaxFxDays == 1
\* most records one run generates over its five collections
MaxRecords == 7
\* most defect draws that fire in one run
MaxDefects == 1

(***************************************************************************)
(* Python string and number primitives.                                    *)
(***************************************************************************)
Min(a, b) == IF a < b THEN a ELSE b

Abs(a) == IF a < 0 THEN -a ELSE a

Range(s) == {s[i] : i \in 1..Len(s)}

\* s[i] of a Python string (1-based here)
CharAt(s, i) == SubSeq(s, i, i)

DIGITS == <<"0", "1", "2", "3", "4", "5", "6", "7", "8", "9">>

IsDigit(c) == c \in Range(DIGITS)

DigitVal(c) == CHOOSE d \in 0..9 : DIGITS[d + 1] = c

\* str(n) for n >= 0
RECURSIVE Str(_)
Str(n) == IF n < 10 THEN DIGITS[n + 1] ELSE Str(n \div 10) \o DIGITS[(n % 10) + 1]

\* s.zfill(w): left-pad with "0" up to width w, never truncating
RECURSIVE Zfill(_, _)
Zfill(s, w) == IF Len(s) >= w THEN s ELSE Zfill("0" \o s, w)

\* int(s) for a string of digits
RECURSIVE ParseNat(_)
ParseNat(s) ==
    IF Len(s) = 0 THEN 0
    ELSE 10 * ParseNat(SubSeq(s, 1, Len(s) - 1)) + DigitVal(CharAt(s, Len(s)))

AllDigits(s) == \A i \in 1..Len(s) : IsDigit(CharAt(s, i))

UPPER == <<"A", "B", "C", "D", "E", "F", "G", "H", "I", "J", "K", "L", "M",
           "N", "O", "P", "Q", "R", "S", "T", "U", "V", "W", "X", "Y", "Z">>

LOWER == <<"a", "b", "c", "d", "e", "f", "g", "h", "i", "j", "k", "l", "m",
           "n", "o", "p", "q", "r", "s", "t", "u", "v", "w", "x", "y", "z">>

LowerChar(c) ==
    IF c \in Range(UPPER) THEN LOWER[CHOOSE i \in 1..26 : UPPER[i] = c] ELSE c

\* s.lower()
RECURSIVE Lower(_)
Lower(s) ==
    IF Len(s) = 0 THEN ""
    ELSE Lower(SubSeq(s, 1, Len(s) - 1)) \o LowerChar(CharAt(s, Len(s)))

\* round-half-even of n / d for n >= 0, d > 0 (the rounding of "%.Nf")
RoundDiv(n, d) ==
    LET q == n \div d
        r == n % d
    IN  IF 2 * r > d \/ (2 * r = d /\ q % 2 = 1) THEN q + 1 ELSE q

\* f"{x:.2f}" for x in thousandths
Fmt2(x) ==
    LET c == RoundDiv(Abs(x), 10)
    IN  (IF x < 0 THEN "-" ELSE "") \o Str(c \div 100) \o "." \o Zfill(Str(c % 100), 2)

\* f"{x:.6f}" for x in millionths
Fmt6(x) ==
    (IF x < 0 THEN "-" ELSE "") \o Str(Abs(x) \div 1000000) \o "."
        \o Zfill(Str(Abs(x) % 1000000), 6)

\* position of the first "." in s, 0 if none
DotPos(s) ==
    IF \E i \in 1..Len(s) : CharAt(s, i) = "."
    THEN CHOOSE i \in 1..Len(s) :
             CharAt(s, i) = "." /\ \A j \in 1..(i - 1) : CharAt(s, j) # "."
    ELSE 0

\* a decimal literal: optional "-", digits, ".", digits
IsDecimal(s) ==
    LET neg == Len(s) > 0 /\ CharAt(s, 1) = "-"
        body == IF neg THEN SubSeq(s, 2, Len(s)) ELSE s
        p == DotPos(body)
    IN  /\ p > 1
        /\ p < Len(body)
        /\ AllDigits(SubSeq(body, 1, p - 1))
        /\ AllDigits(SubSeq(body, p + 1, Len(body)))

\* float(s) of a two-decimal literal, in thousandths
Float2(s) ==
    LET neg == CharAt(s, 1) = "-"
        body == IF neg THEN SubSeq(s, 2, Len(s)) ELSE s
        p == DotPos(body)
        v == (ParseNat(SubSeq(body, 1, p - 1)) * 100
                  + ParseNat(SubSeq(body, p + 1, Len(body)))) * 10
    IN  IF neg THEN -v ELSE v

(***************************************************************************)
(* datetime: a date is its day number, 0 = 1970-01-01.                     *)
(***************************************************************************)
\* datetime(y, m, d) as a day number
DateOf(y, m, d) ==
    LET yy == IF m <= 2 THEN y - 1 ELSE y
        era == yy \div 400
        yoe == yy - era * 400
        mp == (m + 9) % 12
        doy == (153 * mp + 2) \div 5 + d - 1
        doe == yoe * 365 + yoe \div 4 - yoe \div 100 + doy
    IN  era * 146097 + doe - 719468

\* date.strftime("%Y-%m-%d")
Strftime(z) ==
    LET zz == z + 719468
        era == zz \div 146097
        doe == zz - era * 146097
        yoe == (doe - doe \div 1460 + doe \div 36524 - doe \div 146096) \div 365
        doy == doe - (365 * yoe + yoe \div 4 - yoe \div 100)
        mp == (5 * doy + 2) \div 153
        d == doy - (153 * mp + 2) \div 5 + 1
        m == IF mp < 10 THEN mp + 3 ELSE mp - 9
        y == yoe + era * 400 + (IF m <= 2 THEN 1 ELSE 0)
    IN  Zfill(Str(y), 4) \o "-" \o Zfill(Str(m), 2) \o "-" \o Zfill(Str(d), 2)

(***************************************************************************)
(* State.                                                                  *)
(***************************************************************************)
VARIABLES
    variant,         \* "defect" (Sampledata.py) or "pure" (generate_pure_sample_data.py)
    pc,              \* position of the run
    cfg,             \* the arguments the generators are called with
    customers, accounts, transactions, daily_balances, fx_rates,
    acct,            \* generate_daily_balances: index of the account of the outer loop
    day,             \* generate_daily_balances: the inner loop's day
    base_balance,    \* generate_daily_balances: the running balance, in thousandths
    walk,            \* per daily-balance record: its account, day, the running balance
                     \* before it and the daily_change drawn, in thousandths
    orphans,         \* positions of the accounts that took the orphan branch
    fx_day, fx_cur,  \* generate_fx_rates: the loops' day and currency position
    ndefects,        \* number of defect draws that have fired in this run
    files,           \* the files written so far
    failed,          \* the I/O error that ended the run, if one did
    call,            \* a single field-generator call: its name, arguments and draws
    ret,             \* what that call returned
    big              \* a large customer collection, by length and suppressed positions

vars == <<variant, pc, cfg, customers, accounts, transactions, daily_balances,
          fx_rates, acct, day, base_balance, walk, orphans, fx_day, fx_cur,
          ndefects, files, failed, call, ret, big>>

(***************************************************************************)
(* The random module.  A draw is an explicit argument: random.choice and   *)
(* the numeric draws take the index k of the value they return, and        *)
(* random.random() < p is the boolean a generator is handed.               *)
(***************************************************************************)
\* random.choice(pool), returning its k-th element (cyclically)
Choice(pool, k) == pool[((k - 1) % Len(pool)) + 1]

\* random.randint(a, b): the centre and the two ends of the range
RandInt(a, b, k) == Choice(<<(a + b) \div 2, a, b>>, k)

\* random.uniform(0, 100000), in thousandths
BALANCE_SAMPLES == <<12345678, 0, 100000000, 250004>>

\* random.uniform(-10000, 10000), in thousandths
AMOUNT_SAMPLES == <<-2500004, 10000000, -10000000, 125>>

\* random.uniform(-1000, 1000), in thousandths
CHANGE_SAMPLES == <<6, -4, 1000000, -1000000, 0, 123456>>

\* random.uniform(0.95, 1.05), in hundredths
VOLATILITY_SAMPLES == <<100, 95, 105>>

Bit(b) == IF b THEN 1 ELSE 0

(***************************************************************************)
(* src/Sampledata.py: configuration, vocabularies and field generators.    *)
(***************************************************************************)
OUTPUT_DIR == "sample_data"

TODAY == DateOf(2026, 1, 22)

FIRST_NAMES ==
    <<"John", "Jane", "Michael", "Sarah", "David", "Emma", "Robert", "Lisa",
      "William", "Mary", "James", "Patricia", "Richard", "Jennifer", "Thomas",
      "Linda", "Charles", "Barbara">>

LAST_NAMES ==
    <<"Smith", "Johnson", "Williams", "Brown", "Jones", "Garcia", "Miller",
      "Davis", "Rodriguez", "Martinez", "Hernandez", "Lopez", "Gonzalez",
      "Wilson", "Anderson", "Thomas", "Taylor", "Moore">>

COUNTRIES ==
    <<"USA", "UK", "Canada", "Australia", "Germany", "France", "Spain", "Italy",
      "Japan", "India">>

KYC_STATUSES == <<"VERIFIED", "PENDING", "REJECTED", "EXPIRED", "NOT_STARTED">>

ACCOUNT_TYPES == <<"SAVINGS", "CHECKING", "CREDIT", "INVESTMENT", "LOAN">>

TRANSACTION_TYPES ==
    <<"DEPOSIT", "WITHDRAWAL", "TRANSFER", "PAYMENT", "FEE", "INTEREST">>

CURRENCIES == <<"USD", "EUR", "GBP", "JPY", "CAD", "AUD", "CHF", "CNY">>

EMAIL_DOMAINS == <<"gmail.com", "yahoo.com", "outlook.com", "company.com">>

ACCOUNT_STATUSES == <<"ACTIVE", "CLOSED", "SUSPENDED", "PENDING">>

CHANNELS == <<"Online", "ATM", "Branch", "Mobile">>

TRANSACTION_STATUSES == <<"COMPLETED", "PENDING", "FAILED", "REVERSED">>

\* the literals of the defect branch of generate_email
EmailIssues(first_name, last_name) ==
    <<Lower(first_name) \o "@",
      Lower(first_name) \o "." \o Lower(last_name),
      Lower(first_name) \o "@invalid",
      "">>

\* generate_email whose defect branch is never taken
generate_email_never_bad(first_name, last_name, add_issue, r) ==
    Lower(first_name) \o "." \o Lower(last_name) \o "@" \o Choice(EMAIL_DOMAINS, r.k)

\* r = [bad |-> random.random() < 0.15, k |-> the index random.choice returns]
generate_email(first_name, last_name, add_issue, r) ==
    IF add_issue /\ r.bad
    THEN Choice(EmailIssues(first_name, last_name), r.k)
    ELSE Lower(first_name) \o "." \o Lower(last_name) \o "@"
             \o Choice(EMAIL_DOMAINS, r.k)

PhoneIssues == <<"123", "12345678901234567890", "ABC-DEF-GHIJ", "">>

generate_phone(add_issue, r) ==
    IF add_issue /\ r.bad
    THEN Choice(PhoneIssues, r.k)
    ELSE "+1-" \o Str(RandInt(200, 999, r.k)) \o "-" \o Str(RandInt(200, 999, r.k + 1))
             \o "-" \o Str(RandInt(1000, 9999, r.k + 2))

DateIssues == <<"2026-13-45", "NOT_A_DATE", "2099-12-31", "">>

generate_date(base_date, days_range, add_issue, r) ==
    IF add_issue /\ r.bad
    THEN Choice(DateIssues, r.k)
    ELSE Strftime(base_date + RandInt(-days_range, days_range, r.k))

(***************************************************************************)
(* src/scripts/generate_pure_sample_data.py: the same, without defects.    *)
(***************************************************************************)
PURE_OUTPUT_DIR == "pure_sample_data"

PURE_TODAY == DateOf(2026, 1, 22)

PURE_FIRST_NAMES ==
    <<"John", "Jane", "Michael", "Sarah", "David", "Emma", "Robert", "Lisa",
      "William", "Mary", "James", "Patricia", "Richard", "Jennifer", "Thomas",
      "Linda", "Charles", "Barbara">>

PURE_LAST_NAMES ==
    <<"Smith", "Johnson", "Williams", "Brown", "Jones", "Garcia", "Miller",
      "Davis", "Rodriguez", "Martinez", "Hernandez", "Lopez", "Gonzalez",
      "Wilson", "Anderson", "Thomas", "Taylor", "Moore">>

PURE_COUNTRIES ==
    <<"USA", "UK", "Canada", "Australia", "Germany", "France", "Spain", "Italy",
      "Japan", "India">>

PURE_KYC_STATUSES == <<"VERIFIED", "PENDING", "REJECTED", "EXPIRED", "NOT_STARTED">>

PURE_ACCOUNT_TYPES == <<"SAVINGS", "CHECKING", "CREDIT", "INVESTMENT", "LOAN">>

PURE_TRANSACTION_TYPES ==
    <<"DEPOSIT", "WITHDRAWAL", "TRANSFER", "PAYMENT", "FEE", "INTEREST">>

PURE_CURRENCIES == <<"USD", "EUR", "GBP", "JPY", "CAD", "AUD", "CHF", "CNY">>

PURE_EMAIL_DOMAINS == <<"gmail.com", "yahoo.com", "outlook.com", "company.com">>

PURE_ACCOUNT_STATUSES == <<"ACTIVE", "CLOSED", "SUSPENDED", "PENDING">>

PURE_CHANNELS == <<"Online", "ATM", "Branch", "Mobile">>

PURE_TRANSACTION_STATUSES == <<"COMPLETED", "PENDING", "FAILED", "REVERSED">>

pure_generate_email(first_name, last_name, k) ==
    Lower(first_name) \o "." \o Lower(last_name) \o "@" \o Choice(PURE_EMAIL_DOMAINS, k)

pure_generate_phone(k) ==
    "+1-" \o Str(RandInt(200, 999, k)) \o "-" \o Str(RandInt(200, 999, k + 1))
        \o "-" \o Str(RandInt(1000, 9999, k + 2))

pure_generate_date(base_date, days_range, k) ==
    Strftime(base_date + RandInt(-days_range, days_range, k))

(***************************************************************************)
(* Format validators (what "a valid value of the field" means).            *)
(***************************************************************************)
CountChar(s, c) == Cardinality({i \in 1..Len(s) : CharAt(s, i) = c})

\* local@domain with a non-empty local part and a dotted domain
ValidEmail(s) ==
    /\ CountChar(s, "@") = 1
    /\ LET at == CHOOSE i \in 1..Len(s) : CharAt(s, i) = "@"
           dom == SubSeq(s, at + 1, Len(s))
       IN  /\ at > 1
           /\ DotPos(dom) > 1
           /\ CharAt(dom, Len(dom)) # "."

\* +1-NNN-NNN-NNNN
ValidPhone(s) ==
    /\ Len(s) = 15
    /\ SubSeq(s, 1, 3) = "+1-"
    /\ AllDigits(SubSeq(s, 4, 6))
    /\ CharAt(s, 7) = "-"
    /\ AllDigits(SubSeq(s, 8, 10))
    /\ CharAt(s, 11) = "-"
    /\ AllDigits(SubSeq(s, 12, 15))

IsLeap(y) == (y % 4 = 0 /\ y % 100 # 0) \/ y % 400 = 0

DaysInMonth(y, m) ==
    IF m = 2 THEN (IF IsLeap(y) THEN 29 ELSE 28)
    ELSE IF m \in {4, 6, 9, 11} THEN 30 ELSE 31

\* YYYY-MM-DD naming a day of the calendar
ValidDate(s) ==
    /\ Len(s) = 10
    /\ CharAt(s, 5) = "-"
    /\ CharAt(s, 8) = "-"
    /\ AllDigits(SubSeq(s, 1, 4))
    /\ AllDigits(SubSeq(s, 6, 7))
    /\ AllDigits(SubSeq(s, 9, 10))
    /\ LET y == ParseNat(SubSeq(s, 1, 4))
           m == ParseNat(SubSeq(s, 6, 7))
           d == ParseNat(SubSeq(s, 9, 10))
       IN  /\ y >= 1
           /\ m \in 1..12
           /\ d \in 1..DaysInMonth(y, m)


(***************************************************************************)
(* src/Sampledata.py: the entity generators.  Each operator is the body of *)
(* one loop iteration, i the loop index and d the iteration's draws.       *)
(***************************************************************************)
NoIssue(k) == [bad |-> FALSE, k |-> k]

\* generate_customers, one iteration of "for i in range(count)"
Customer(i, d) ==
    LET customer_id == "CUST" \o Zfill(Str(i + 1), 6)
        first_name == Choice(FIRST_NAMES, d.k)
        last_name == Choice(LAST_NAMES, d.k)
        add_issues == d.add_issues
    IN  [customer_id |-> IF ~d.id_missing THEN customer_id ELSE "",
         first_name |-> IF ~d.first_missing THEN first_name ELSE "",
         last_name |-> IF ~d.last_missing THEN last_name ELSE "",
         email |-> generate_email(first_name, last_name, add_issues,
                                   [bad |-> d.email_bad, k |-> d.k]),
         phone |-> generate_phone(add_issues, [bad |-> d.phone_bad, k |-> d.k]),
         date_of_birth |-> generate_date(DateOf(1970, 1, 1), 365 * 40, add_issues,
                                          [bad |-> d.dob_bad, k |-> d.k]),
         country |-> IF ~d.country_missing THEN Choice(COUNTRIES, d.k) ELSE "",
         kyc_status |-> Choice(KYC_STATUSES, d.k),
         created_date |-> generate_date(TODAY, 365, FALSE, NoIssue(d.k)),
         last_updated |-> Strftime(TODAY)]

\* AccountCount rounding up instead of truncating
AccountCountRoundsUp(n, ratio) == (n * ratio[1] + ratio[2] - 1) \div ratio[2]

\* int(len(customers) * avg_accounts_per_customer), the ratio a fraction <<num, den>>
AccountCount(n, ratio) == (n * ratio[1]) \div ratio[2]

\* generate_accounts, one iteration of "for i in range(count)"
Account(custs, i, d) ==
    LET customer_id ==
            IF d.orphan
            THEN "CUST" \o Str(RandInt(900000, 999999, d.k))
            ELSE custs[d.c].customer_id
    IN  [account_id |-> IF ~d.id_missing THEN "ACC" \o Zfill(Str(i + 1), 8) ELSE "",
         customer_id |-> customer_id,
         account_type |-> Choice(ACCOUNT_TYPES, d.k),
         balance |-> Fmt2(Choice(BALANCE_SAMPLES, d.k)),
         currency |-> Choice(CURRENCIES, d.k),
         status |-> Choice(ACCOUNT_STATUSES, d.k),
         opened_date |-> generate_date(TODAY, 730, FALSE, NoIssue(d.k)),
         last_transaction_date |-> generate_date(TODAY, 30, FALSE, NoIssue(d.k))]

\* Transaction that draws its own currency instead of taking the account's
TransactionOwnCurrency(accs, i, d) ==
    LET account == accs[d.a]
    IN  [transaction_id |->
             IF ~d.id_missing THEN "TXN" \o Zfill(Str(i + 1), 10) ELSE "",
         account_id |-> account.account_id,
         transaction_type |-> Choice(TRANSACTION_TYPES, d.k),
         amount |-> Fmt2(Choice(AMOUNT_SAMPLES, d.k)),
         currency |-> Choice(CURRENCIES, d.k),
         transaction_date |-> generate_date(TODAY, 90, FALSE, NoIssue(d.k)),
         description |-> Choice(TRANSACTION_TYPES, d.k + 1) \o " - "
                             \o Choice(CHANNELS, d.k),
         status |-> Choice(TRANSACTION_STATUSES, d.k)]

\* generate_transactions, one iteration of "for i in range(count)"
Transaction(accs, i, d) ==
    LET account == accs[d.a]
    IN  [transaction_id |->
             IF ~d.id_missing THEN "TXN" \o Zfill(Str(i + 1), 10) ELSE "",
         account_id |-> account.account_id,
         transaction_type |-> Choice(TRANSACTION_TYPES, d.k),
         amount |-> Fmt2(Choice(AMOUNT_SAMPLES, d.k)),
         currency |-> account.currency,
         transaction_date |-> generate_date(TODAY, 90, FALSE, NoIssue(d.k)),
         description |-> Choice(TRANSACTION_TYPES, d.k + 1) \o " - "
                             \o Choice(CHANNELS, d.k),
         status |-> Choice(TRANSACTION_STATUSES, d.k)]

\* DailyBalance that starts every day from the account's nominal balance
DailyBalanceNoWalk(account, n, dayno, base, daily_change) ==
    [balance_id |-> "BAL" \o Zfill(Str(n + 1), 10),
     account_id |-> account.account_id,
     balance_date |-> Strftime(TODAY - dayno),
     opening_balance |-> account.balance,
     closing_balance |-> Fmt2(Float2(account.balance) + daily_change),
     currency |-> account.currency]

\* DailyBalance whose closing balance is the day's change alone
DailyBalanceClosingIsChange(account, n, dayno, base, daily_change) ==
    [balance_id |-> "BAL" \o Zfill(Str(n + 1), 10),
     account_id |-> account.account_id,
     balance_date |-> Strftime(TODAY - dayno),
     opening_balance |-> Fmt2(base),
     closing_balance |-> Fmt2(daily_change),
     currency |-> account.currency]

\* DailyBalance that writes the date as a day offset
DailyBalanceRawDate(account, n, dayno, base, daily_change) ==
    [balance_id |-> "BAL" \o Zfill(Str(n + 1), 10),
     account_id |-> account.account_id,
     balance_date |-> Str(dayno),
     opening_balance |-> Fmt2(base),
     closing_balance |-> Fmt2(base + daily_change),
     currency |-> account.currency]

\* DailyBalance that numbers the records of each account from 1
DailyBalanceNumberedPerAccount(account, n, dayno, base, daily_change) ==
    [balance_id |-> "BAL" \o Zfill(Str(dayno + 1), 10),
     account_id |-> account.account_id,
     balance_date |-> Strftime(TODAY - dayno),
     opening_balance |-> Fmt2(base),
     closing_balance |-> Fmt2(base + daily_change),
     currency |-> account.currency]

\* generate_daily_balances, one iteration of "for day in range(days)":
\* n = len(balances), base = base_balance, daily_change the delta drawn
DailyBalance(account, n, dayno, base, daily_change) ==
    [balance_id |-> "BAL" \o Zfill(Str(n + 1), 10),
     account_id |-> account.account_id,
     balance_date |-> Strftime(TODAY - dayno),
     opening_balance |-> Fmt2(base),
     closing_balance |-> Fmt2(base + daily_change),
     currency |-> account.currency]

\* base_rates of generate_fx_rates, in ten-thousandths, in the dict's order
BASE_RATES ==
    <<[currency |-> "EUR", rate |-> 11000], [currency |-> "GBP", rate |-> 12700],
      [currency |-> "JPY", rate |-> 91], [currency |-> "CAD", rate |-> 7400],
      [currency |-> "AUD", rate |-> 6600], [currency |-> "CHF", rate |-> 11200],
      [currency |-> "CNY", rate |-> 1400]>>

RateIssues == <<"", "-1.0", "999999.0">>

FX_SOURCES == <<"CENTRAL_BANK", "MARKET", "MANUAL">>

\* generate_fx_rates, one iteration of the inner loop: n = len(rates)
FxRate(n, dayno, cur, d) ==
    LET rate == BASE_RATES[cur].rate * Choice(VOLATILITY_SAMPLES, d.k)
    IN  [rate_id |-> "FX" \o Zfill(Str(n + 1), 8),
         from_currency |-> "USD",
         to_currency |-> BASE_RATES[cur].currency,
         exchange_rate |-> IF ~d.add_issue THEN Fmt6(rate) ELSE Choice(RateIssues, d.k),
         rate_date |-> Strftime(TODAY - dayno),
         source |-> Choice(FX_SOURCES, d.k)]

(***************************************************************************)
(* src/scripts/generate_pure_sample_data.py: the entity generators.        *)
(***************************************************************************)
PureCustomer(i, k) ==
    LET customer_id == "CUST" \o Zfill(Str(i + 1), 6)
        first_name == Choice(PURE_FIRST_NAMES, k)
        last_name == Choice(PURE_LAST_NAMES, k)
    IN  [customer_id |-> customer_id,
         first_name |-> first_name,
         last_name |-> last_name,
         email |-> pure_generate_email(first_name, last_name, k),
         phone |-> pure_generate_phone(k),
         date_of_birth |-> pure_generate_date(DateOf(1970, 1, 1), 365 * 40, k),
         country |-> Choice(PURE_COUNTRIES, k),
         kyc_status |-> Choice(PURE_KYC_STATUSES, k),
         created_date |-> pure_generate_date(PURE_TODAY, 365, k),
         last_updated |-> Strftime(PURE_TODAY)]

\* PureAccount that takes the customer's position for its identifier
PureAccountUnpaddedCustomer(custs, i, d) ==
    [account_id |-> "ACC" \o Zfill(Str(i + 1), 8),
     customer_id |-> "CUST" \o Str(d.c),
     account_type |-> Choice(PURE_ACCOUNT_TYPES, d.k),
     balance |-> Fmt2(Choice(BALANCE_SAMPLES, d.k)),
     currency |-> Choice(PURE_CURRENCIES, d.k),
     status |-> Choice(PURE_ACCOUNT_STATUSES, d.k),
     opened_date |-> pure_generate_date(PURE_TODAY, 730, d.k),
     last_transaction_date |-> pure_generate_date(PURE_TODAY, 30, d.k)]

PureAccountCount(n, ratio) == (n * ratio[1]) \div ratio[2]

PureAccount(custs, i, d) ==
    LET customer_id == custs[d.c].customer_id
    IN  [account_id |-> "ACC" \o Zfill(Str(i + 1), 8),
         customer_id |-> customer_id,
         account_type |-> Choice(PURE_ACCOUNT_TYPES, d.k),
         balance |-> Fmt2(Choice(BALANCE_SAMPLES, d.k)),
         currency |-> Choice(PURE_CURRENCIES, d.k),
         status |-> Choice(PURE_ACCOUNT_STATUSES, d.k),
         opened_date |-> pure_generate_date(PURE_TODAY, 730, d.k),
         last_transaction_date |-> pure_generate_date(PURE_TODAY, 30, d.k)]

\* PureTransaction whose date window is 30 days instead of 90
PureTransactionShortWindow(accs, i, d) ==
    LET account == accs[d.a]
    IN  [transaction_id |-> "TXN" \o Zfill(Str(i + 1), 10),
         account_id |-> account.account_id,
         transaction_type |-> Choice(PURE_TRANSACTION_TYPES, d.k),
         amount |-> Fmt2(Choice(AMOUNT_SAMPLES, d.k)),
         currency |-> account.currency,
         transaction_date |-> pure_generate_date(PURE_TODAY, 30, d.k),
         description |-> Choice(PURE_TRANSACTION_TYPES, d.k + 1) \o " - "
                             \o Choice(PURE_CHANNELS, d.k),
         status |-> Choice(PURE_TRANSACTION_STATUSES, d.k)]

PureTransaction(accs, i, d) ==
    LET account == accs[d.a]
    IN  [transaction_id |-> "TXN" \o Zfill(Str(i + 1), 10),
         account_id |-> account.account_id,
         transaction_type |-> Choice(PURE_TRANSACTION_TYPES, d.k),
         amount |-> Fmt2(Choice(AMOUNT_SAMPLES, d.k)),
         currency |-> account.currency,
         transaction_date |-> pure_generate_date(PURE_TODAY, 90, d.k),
         description |-> Choice(PURE_TRANSACTION_TYPES, d.k + 1) \o " - "
                             \o Choice(PURE_CHANNELS, d.k),
         status |-> Choice(PURE_TRANSACTION_STATUSES, d.k)]

PureDailyBalance(account, n, dayno, base, daily_change) ==
    [balance_id |-> "BAL" \o Zfill(Str(n + 1), 10),
     account_id |-> account.account_id,
     balance_date |-> Strftime(PURE_TODAY - dayno),
     opening_balance |-> Fmt2(base),
     closing_balance |-> Fmt2(base + daily_change),
     currency |-> account.currency]

PURE_BASE_RATES ==
    <<[currency |-> "EUR", rate |-> 11000], [currency |-> "GBP", rate |-> 12700],
      [currency |-> "JPY", rate |-> 91], [currency |-> "CAD", rate |-> 7400],
      [currency |-> "AUD", rate |-> 6600], [currency |-> "CHF", rate |-> 11200],
      [currency |-> "CNY", rate |-> 1400]>>

PURE_FX_SOURCES == <<"CENTRAL_BANK", "MARKET", "MANUAL">>

PureFxRate(n, dayno, cur, k) ==
    LET rate == PURE_BASE_RATES[cur].rate * Choice(VOLATILITY_SAMPLES, k)
    IN  [rate_id |-> "FX" \o Zfill(Str(n + 1), 8),
         from_currency |-> "USD",
         to_currency |-> PURE_BASE_RATES[cur].currency,
         exchange_rate |-> Fmt6(rate),
         rate_date |-> Strftime(PURE_TODAY - dayno),
         source |-> Choice(PURE_FX_SOURCES, k)]


(***************************************************************************)
(* The draws of one loop iteration, as the model samples them.  Iteration  *)
(* i takes its vocabulary and numeric draws at sample index i + 1, so       *)
(* successive records differ; which customer or account is chosen, and     *)
(* which defect draws fire, is free.                                       *)
(***************************************************************************)
KSet(i) == {i + 1}

CustomerDefects(d) ==
    Bit(d.id_missing) + Bit(d.first_missing) + Bit(d.last_missing)
        + Bit(d.country_missing) + Bit(d.add_issues /\ d.email_bad)
        + Bit(d.add_issues /\ d.phone_bad) + Bit(d.add_issues /\ d.dob_bad)

CustomerDraws(i) ==
    {d \in [k : KSet(i), id_missing : BOOLEAN, first_missing : BOOLEAN,
            last_missing : BOOLEAN, add_issues : BOOLEAN, email_bad : BOOLEAN,
            phone_bad : BOOLEAN, dob_bad : BOOLEAN, country_missing : BOOLEAN] :
        /\ ~d.add_issues => ~(d.email_bad \/ d.phone_bad \/ d.dob_bad)
        /\ ndefects + CustomerDefects(d) <= MaxDefects}

AccountDefects(d) == Bit(d.orphan) + Bit(d.id_missing)

AccountDraws(custs, i) ==
    {d \in [k : KSet(i), orphan : BOOLEAN, c : 1..Len(custs), id_missing : BOOLEAN] :
        /\ d.orphan => d.c = 1
        /\ ndefects + AccountDefects(d) <= MaxDefects}

TransactionDefects(d) == Bit(d.id_missing)

TransactionDraws(accs, i) ==
    {d \in [k : KSet(i), a : 1..Len(accs), id_missing : BOOLEAN] :
        ndefects + TransactionDefects(d) <= MaxDefects}

FxDefects(d) == Bit(d.add_issue)

FxDraws(n) ==
    {d \in [k : KSet(n), add_issue : BOOLEAN] : ndefects + FxDefects(d) <= MaxDefects}

PureAccountDraws(custs, i) == [k : KSet(i), c : 1..Len(custs)]

PureTransactionDraws(accs, i) == [k : KSet(i), a : 1..Len(accs)]

(***************************************************************************)
(* main(): the file list, in the order written.                            *)
(***************************************************************************)
CSV_FILES ==
    <<[filename |-> "customer.csv",
       fieldnames |-> <<"customer_id", "first_name", "last_name", "email", "phone",
                        "date_of_birth", "country", "kyc_status", "created_date",
                        "last_updated">>],
      [filename |-> "account.csv",
       fieldnames |-> <<"account_id", "customer_id", "account_type", "balance",
                        "currency", "status", "opened_date", "last_transaction_date">>],
      [filename |-> "transaction.csv",
       fieldnames |-> <<"transaction_id", "account_id", "transaction_type", "amount",
                        "currency", "transaction_date", "description", "status">>],
      [filename |-> "daily_balance.csv",
       fieldnames |-> <<"balance_id", "account_id", "balance_date", "opening_balance",
                        "closing_balance", "currency">>],
      [filename |-> "fx_rate.csv",
       fieldnames |-> <<"rate_id", "from_currency", "to_currency", "exchange_rate",
                        "rate_date", "source">>]>>

PURE_CSV_FILES ==
    <<[filename |-> "customer.csv",
       fieldnames |-> <<"customer_id", "first_name", "last_name", "email", "phone",
                        "date_of_birth", "country", "kyc_status", "created_date",
                        "last_updated">>],
      [filename |-> "account.csv",
       fieldnames |-> <<"account_id", "customer_id", "account_type", "balance",
                        "currency", "status", "opened_date", "last_transaction_date">>],
      [filename |-> "transaction.csv",
       fieldnames |-> <<"transaction_id", "account_id", "transaction_type", "amount",
                        "currency", "transaction_date", "description", "status">>],
      [filename |-> "daily_balance.csv",
       fieldnames |-> <<"balance_id", "account_id", "balance_date", "opening_balance",
                        "closing_balance", "currency">>],
      [filename |-> "fx_rate.csv",
       fieldnames |-> <<"rate_id", "from_currency", "to_currency", "exchange_rate",
                        "rate_date", "source">>]>>

\* the collection main() hands to its n-th write_csv call
Collection(n) ==
    CASE n = 1 -> customers
      [] n = 2 -> accounts
      [] n = 3 -> transactions
      [] n = 4 -> daily_balances
      [] n = 5 -> fx_rates

\* csv.DictWriter: a record's values in the order of fieldnames
Row(rec, fieldnames) == [j \in 1..Len(fieldnames) |-> rec[fieldnames[j]]]

\* write_csv(filename, data, fieldnames): the file it leaves
WrittenFile(dir, f, data) ==
    [path |-> dir \o "/" \o f.filename,
     header |-> f.fieldnames,
     rows |-> [j \in 1..Len(data) |-> Row(data[j], f.fieldnames)]]


(***************************************************************************)
(* One run of main(), both variants.                                       *)
(***************************************************************************)
\* the account ratios a run is started with, as fractions <<num, den>>: values the
\* float product len(customers) * ratio represents exactly
RATIOS == {<<1, 2>>, <<3, 2>>, <<2, 1>>}

\* records a run with arguments c generates in all
TotalRecords(c) ==
    LET a == AccountCount(c.count, c.ratio)
    IN  c.count + a + a * c.tpa + a * c.days + c.fxdays * Len(BASE_RATES)

Configs ==
    {c \in [count : 0..MaxCount, ratio : RATIOS, tpa : 0..MaxTpa, days : 0..MaxDays,
            fxdays : 0..MaxFxDays] : TotalRecords(c) <= MaxRecords}

NoCall == [fn |-> "none"]

\* the arguments of a run that generates nothing
IdleCfg == [count |-> 0, ratio |-> <<3, 2>>, tpa |-> 0, days |-> 0, fxdays |-> 0]

NoBig == [n |-> 0, blank |-> {}]

\* no I/O error has been raised
NoFailure == [op |-> "none"]

Init ==
    /\ variant \in {"defect", "pure"}
    /\ cfg \in Configs
    /\ pc = "mkdir"
    /\ customers = <<>>
    /\ accounts = <<>>
    /\ transactions = <<>>
    /\ daily_balances = <<>>
    /\ fx_rates = <<>>
    /\ acct = 0
    /\ day = 0
    /\ base_balance = 0
    /\ walk = <<>>
    /\ orphans = {}
    /\ fx_day = 0
    /\ fx_cur = 1
    /\ ndefects = 0
    /\ files = <<>>
    /\ failed = NoFailure
    /\ call = NoCall
    /\ ret = ""
    /\ big = NoBig

fieldVars == <<call, ret, big>>

balanceVars == <<acct, day, base_balance, walk>>

fxVars == <<fx_day, fx_cur>>

\* OUTPUT_DIR.mkdir(exist_ok=True)
Mkdir ==
    /\ pc = "mkdir"
    /\ pc' = "customers"
    /\ UNCHANGED <<variant, cfg, customers, accounts, transactions, daily_balances,
                   fx_rates, balanceVars, orphans, fxVars, ndefects, files, failed,
                   fieldVars>>

\* Sampledata.generate_customers: one iteration
generate_customers ==
    /\ pc = "customers"
    /\ variant = "defect"
    /\ Len(customers) < cfg.count
    /\ \E d \in CustomerDraws(Len(customers)) :
           /\ customers' = Append(customers, Customer(Len(customers), d))
           /\ ndefects' = ndefects + CustomerDefects(d)
    /\ UNCHANGED <<variant, pc, cfg, accounts, transactions, daily_balances, fx_rates,
                   balanceVars, orphans, fxVars, files, failed,
                   fieldVars>>

\* generate_pure_sample_data.generate_customers: one iteration
pure_generate_customers ==
    /\ pc = "customers"
    /\ variant = "pure"
    /\ Len(customers) < cfg.count
    /\ \E k \in KSet(Len(customers)) :
           customers' = Append(customers, PureCustomer(Len(customers), k))
    /\ UNCHANGED <<variant, pc, cfg, accounts, transactions, daily_balances, fx_rates,
                   balanceVars, orphans, fxVars, ndefects, files, failed,
                   fieldVars>>

\* generate_customers returns; main calls generate_accounts
ReturnCustomers ==
    /\ pc = "customers"
    /\ Len(customers) = cfg.count
    /\ pc' = "accounts"
    /\ UNCHANGED <<variant, cfg, customers, accounts, transactions, daily_balances,
                   fx_rates, balanceVars, orphans, fxVars, ndefects, files, failed,
                   fieldVars>>

\* Sampledata.generate_accounts: one iteration
generate_accounts ==
    /\ pc = "accounts"
    /\ variant = "defect"
    /\ Len(accounts) < AccountCount(Len(customers), cfg.ratio)
    /\ \E d \in AccountDraws(customers, Len(accounts)) :
           /\ accounts' = Append(accounts, Account(customers, Len(accounts), d))
           /\ ndefects' = ndefects + AccountDefects(d)
           /\ orphans' = IF d.orphan THEN orphans \cup {Len(accounts) + 1} ELSE orphans
    /\ UNCHANGED <<variant, pc, cfg, customers, transactions, daily_balances, fx_rates,
                   balanceVars, fxVars, files, failed,
                   fieldVars>>

\* generate_pure_sample_data.generate_accounts: one iteration
pure_generate_accounts ==
    /\ pc = "accounts"
    /\ variant = "pure"
    /\ Len(accounts) < PureAccountCount(Len(customers), cfg.ratio)
    /\ \E d \in PureAccountDraws(customers, Len(accounts)) :
           accounts' = Append(accounts, PureAccount(customers, Len(accounts), d))
    /\ UNCHANGED <<variant, pc, cfg, customers, transactions, daily_balances, fx_rates,
                   balanceVars, orphans, fxVars, ndefects, files, failed,
                   fieldVars>>

\* count of the accounts loop, in the running variant
AccountTarget ==
    IF variant = "pure" THEN PureAccountCount(Len(customers), cfg.ratio)
    ELSE AccountCount(Len(customers), cfg.ratio)

\* generate_accounts returns; main calls generate_transactions
ReturnAccounts ==
    /\ pc = "accounts"
    /\ Len(accounts) = AccountTarget
    /\ pc' = "transactions"
    /\ UNCHANGED <<variant, cfg, customers, accounts, transactions, daily_balances,
                   fx_rates, balanceVars, orphans, fxVars, ndefects, files, failed,
                   fieldVars>>

\* generate_transactions: count = len(accounts) * transactions_per_account
TransactionCount(accs, transactions_per_account) == Len(accs) * transactions_per_account

PureTransactionCount(accs, transactions_per_account) ==
    Len(accs) * transactions_per_account

\* Sampledata.generate_transactions: one iteration
generate_transactions ==
    /\ pc = "transactions"
    /\ variant = "defect"
    /\ Len(transactions) < TransactionCount(accounts, cfg.tpa)
    /\ \E d \in TransactionDraws(accounts, Len(transactions)) :
           /\ transactions' =
                  Append(transactions, Transaction(accounts, Len(transactions), d))
           /\ ndefects' = ndefects + TransactionDefects(d)
    /\ UNCHANGED <<variant, pc, cfg, customers, accounts, daily_balances, fx_rates,
                   balanceVars, orphans, fxVars, files, failed,
                   fieldVars>>

\* generate_pure_sample_data.generate_transactions: one iteration
pure_generate_transactions ==
    /\ pc = "transactions"
    /\ variant = "pure"
    /\ Len(transactions) < PureTransactionCount(accounts, cfg.tpa)
    /\ \E d \in PureTransactionDraws(accounts, Len(transactions)) :
           transactions' =
               Append(transactions, PureTransaction(accounts, Len(transactions), d))
    /\ UNCHANGED <<variant, pc, cfg, customers, accounts, daily_balances, fx_rates,
                   balanceVars, orphans, fxVars, ndefects, files, failed,
                   fieldVars>>

\* count of the transactions loop, in the running variant
TransactionTarget ==
    IF variant = "pure" THEN PureTransactionCount(accounts, cfg.tpa)
    ELSE TransactionCount(accounts, cfg.tpa)

\* generate_transactions returns; main calls generate_daily_balances
ReturnTransactions ==
    /\ pc = "transactions"
    /\ Len(transactions) = TransactionTarget
    /\ pc' = "daily_balances"
    /\ UNCHANGED <<variant, cfg, customers, accounts, transactions, daily_balances,
                   fx_rates, balanceVars, orphans, fxVars, ndefects, files, failed,
                   fieldVars>>

\* the inner loop of generate_daily_balances is not running
BetweenAccounts == acct = 0 \/ day = cfg.days

\* generate_daily_balances, "for account in accounts": base_balance = float(balance)
NextAccount ==
    /\ pc = "daily_balances"
    /\ BetweenAccounts
    /\ acct < Len(accounts)
    /\ acct' = acct + 1
    /\ base_balance' = Float2(accounts[acct + 1].balance)
    /\ day' = 0
    /\ UNCHANGED <<variant, pc, cfg, customers, accounts, transactions, daily_balances,
                   fx_rates, walk, orphans, fxVars, ndefects, files, failed,
                   fieldVars>>

\* generate_daily_balances, "for day in range(days)": one iteration, either variant
generate_daily_balances ==
    /\ pc = "daily_balances"
    /\ acct >= 1
    /\ day < cfg.days
    /\ \E k \in KSet(Len(daily_balances)) :
           LET daily_change == Choice(CHANGE_SAMPLES, k)
               n == Len(daily_balances)
           IN  /\ daily_balances' =
                      Append(daily_balances,
                             IF variant = "pure"
                             THEN PureDailyBalance(accounts[acct], n, day, base_balance,
                                                   daily_change)
                             ELSE DailyBalance(accounts[acct], n, day, base_balance,
                                               daily_change))
               /\ walk' = Append(walk, [acct |-> acct, day |-> day, base |-> base_balance,
                                        change |-> daily_change])
               /\ base_balance' = base_balance + daily_change
    /\ day' = day + 1
    /\ UNCHANGED <<variant, pc, cfg, customers, accounts, transactions, fx_rates,
                   acct, orphans, fxVars, ndefects, files, failed,
                   fieldVars>>

\* generate_daily_balances returns; main calls generate_fx_rates
ReturnDailyBalances ==
    /\ pc = "daily_balances"
    /\ BetweenAccounts
    /\ acct = Len(accounts)
    /\ pc' = "fx_rates"
    /\ UNCHANGED <<variant, cfg, customers, accounts, transactions, daily_balances,
                   fx_rates, balanceVars, orphans, fxVars, ndefects, files, failed,
                   fieldVars>>

\* the two loops of generate_fx_rates step to the next (day, currency)
FxAdvance ==
    IF fx_cur < Len(BASE_RATES)
    THEN fx_cur' = fx_cur + 1 /\ fx_day' = fx_day
    ELSE fx_cur' = 1 /\ fx_day' = fx_day + 1

\* Sampledata.generate_fx_rates: one iteration of the inner loop
generate_fx_rates ==
    /\ pc = "fx_rates"
    /\ variant = "defect"
    /\ fx_day < cfg.fxdays
    /\ \E d \in FxDraws(Len(fx_rates)) :
           /\ fx_rates' = Append(fx_rates, FxRate(Len(fx_rates), fx_day, fx_cur, d))
           /\ ndefects' = ndefects + FxDefects(d)
    /\ FxAdvance
    /\ UNCHANGED <<variant, pc, cfg, customers, accounts, transactions, daily_balances,
                   balanceVars, orphans, files, failed,
                   fieldVars>>

\* generate_pure_sample_data.generate_fx_rates: one iteration of the inner loop
pure_generate_fx_rates ==
    /\ pc = "fx_rates"
    /\ variant = "pure"
    /\ fx_day < cfg.fxdays
    /\ \E k \in KSet(Len(fx_rates)) :
           fx_rates' = Append(fx_rates, PureFxRate(Len(fx_rates), fx_day, fx_cur, k))
    /\ FxAdvance
    /\ UNCHANGED <<variant, pc, cfg, customers, accounts, transactions, daily_balances,
                   balanceVars, orphans, ndefects, files, failed,
                   fieldVars>>

\* generate_fx_rates returns; main starts writing
ReturnFxRates ==
    /\ pc = "fx_rates"
    /\ fx_day = cfg.fxdays
    /\ pc' = "write"
    /\ UNCHANGED <<variant, cfg, customers, accounts, transactions, daily_balances,
                   fx_rates, balanceVars, orphans, fxVars, ndefects, files, failed,
                   fieldVars>>

\* main's next write_csv call
write_csv ==
    /\ pc = "write"
    /\ Len(files) < Len(CSV_FILES)
    /\ LET n == Len(files) + 1
       IN  files' =
               Append(files,
                      IF variant = "pure"
                      THEN WrittenFile(PURE_OUTPUT_DIR, PURE_CSV_FILES[n], Collection(n))
                      ELSE WrittenFile(OUTPUT_DIR, CSV_FILES[n], Collection(n)))
    /\ UNCHANGED <<variant, pc, cfg, customers, accounts, transactions, daily_balances,
                   fx_rates, balanceVars, orphans, fxVars, ndefects, failed, fieldVars>>

\* the summary, printed once four files are written
SummaryBeforeLastFile ==
    /\ pc = "write"
    /\ Len(files) >= Len(CSV_FILES) - 1
    /\ pc' = "done"
    /\ UNCHANGED <<variant, cfg, customers, accounts, transactions, daily_balances,
                   fx_rates, balanceVars, orphans, fxVars, ndefects, files, failed,
                   fieldVars>>

\* main prints the summary
Summary ==
    /\ pc = "write"
    /\ Len(files) = Len(CSV_FILES)
    /\ pc' = "done"
    /\ UNCHANGED <<variant, cfg, customers, accounts, transactions, daily_balances,
                   fx_rates, balanceVars, orphans, fxVars, ndefects, files, failed,
                   fieldVars>>

Next ==
    \/ Mkdir
    \/ generate_customers
    \/ pure_generate_customers
    \/ ReturnCustomers
    \/ generate_accounts
    \/ pure_generate_accounts
    \/ ReturnAccounts
    \/ generate_transactions
    \/ pure_generate_transactions
    \/ ReturnTransactions
    \/ NextAccount
    \/ generate_daily_balances
    \/ ReturnDailyBalances
    \/ generate_fx_rates
    \/ pure_generate_fx_rates
    \/ ReturnFxRates
    \/ write_csv
    \/ Summary

Spec == Init /\ [][Next]_vars


(***************************************************************************)
(* main() with its I/O errors.  Neither main nor write_csv has a try or a  *)
(* finally around OUTPUT_DIR.mkdir or open/write: the exception leaves     *)
(* main, and the run ends where it was raised.                             *)
(***************************************************************************)
\* the run has ended on an I/O error
Aborted == pc = "aborted"

\* OUTPUT_DIR.mkdir(exist_ok=True) raises
MkdirFails ==
    /\ pc = "mkdir"
    /\ failed' = [op |-> "mkdir"]
    /\ pc' = "aborted"
    /\ UNCHANGED <<variant, cfg, customers, accounts, transactions, daily_balances,
                   fx_rates, balanceVars, orphans, fxVars, ndefects, files, fieldVars>>

\* a write_csv call that raises and removes the files written before it
WriteFailsAndCleansUp ==
    /\ pc = "write"
    /\ Len(files) < Len(CSV_FILES)
    /\ \E created \in BOOLEAN :
           LET n == Len(files) + 1
               dir == IF variant = "pure" THEN PURE_OUTPUT_DIR ELSE OUTPUT_DIR
               f == IF variant = "pure" THEN PURE_CSV_FILES[n] ELSE CSV_FILES[n]
           IN  failed' = [op |-> "write_csv", n |-> n,
                          path |-> dir \o "/" \o f.filename, created |-> created]
    /\ files' = <<>>
    /\ pc' = "aborted"
    /\ UNCHANGED <<variant, cfg, customers, accounts, transactions, daily_balances,
                   fx_rates, balanceVars, orphans, fxVars, ndefects, fieldVars>>

\* main's next write_csv call raises: in open(filepath, 'w'), which then leaves
\* nothing of its own at the path, or in the writer, after open has created or
\* truncated the file
WriteFails ==
    /\ pc = "write"
    /\ Len(files) < Len(CSV_FILES)
    /\ \E created \in BOOLEAN :
           LET n == Len(files) + 1
               dir == IF variant = "pure" THEN PURE_OUTPUT_DIR ELSE OUTPUT_DIR
               f == IF variant = "pure" THEN PURE_CSV_FILES[n] ELSE CSV_FILES[n]
           IN  failed' = [op |-> "write_csv", n |-> n,
                          path |-> dir \o "/" \o f.filename, created |-> created]
    /\ pc' = "aborted"
    /\ UNCHANGED <<variant, cfg, customers, accounts, transactions, daily_balances,
                   fx_rates, balanceVars, orphans, fxVars, ndefects, files, fieldVars>>

NextIO == Next \/ MkdirFails \/ WriteFails

SpecIO == Init /\ [][NextIO]_vars


(***************************************************************************)
(* The field generators of src/Sampledata.py, one call at a time.          *)
(***************************************************************************)
\* the (base_date, days_range) pairs generate_date is called with
DATE_CALLS ==
    {<<DateOf(1970, 1, 1), 365 * 40>>, <<TODAY, 365>>, <<TODAY, 730>>, <<TODAY, 30>>,
     <<TODAY, 90>>}

\* every outcome of the draws of one field-generator call
FieldDraws == [bad : BOOLEAN, k : 1..Len(EMAIL_DOMAINS)]

FieldCalls ==
    [fn : {"generate_email"}, first_name : Range(FIRST_NAMES),
     last_name : Range(LAST_NAMES), add_issue : BOOLEAN, r : FieldDraws]
    \cup [fn : {"generate_phone"}, add_issue : BOOLEAN, r : FieldDraws]
    \cup [fn : {"generate_date"}, args : DATE_CALLS, add_issue : BOOLEAN, r : FieldDraws]

InitFields ==
    /\ variant = "defect"
    /\ cfg = IdleCfg
    /\ pc = "call"
    /\ customers = <<>>
    /\ accounts = <<>>
    /\ transactions = <<>>
    /\ daily_balances = <<>>
    /\ fx_rates = <<>>
    /\ acct = 0
    /\ day = 0
    /\ base_balance = 0
    /\ walk = <<>>
    /\ orphans = {}
    /\ fx_day = 0
    /\ fx_cur = 1
    /\ ndefects = 0
    /\ files = <<>>
    /\ failed = NoFailure
    /\ call \in FieldCalls
    /\ ret = ""
    /\ big = NoBig

runVars ==
    <<variant, cfg, customers, accounts, transactions, daily_balances, fx_rates,
      balanceVars, orphans, fxVars, files, failed>>

\* the call took the defect branch: add_issue and random.random() < p
TookIssueBranch == call.add_issue /\ call.r.bad

call_generate_email ==
    /\ pc = "call"
    /\ call.fn = "generate_email"
    /\ ret' = generate_email(call.first_name, call.last_name, call.add_issue, call.r)
    /\ ndefects' = ndefects + Bit(TookIssueBranch)
    /\ pc' = "returned"
    /\ UNCHANGED <<runVars, call, big>>

call_generate_phone ==
    /\ pc = "call"
    /\ call.fn = "generate_phone"
    /\ ret' = generate_phone(call.add_issue, call.r)
    /\ ndefects' = ndefects + Bit(TookIssueBranch)
    /\ pc' = "returned"
    /\ UNCHANGED <<runVars, call, big>>

call_generate_date ==
    /\ pc = "call"
    /\ call.fn = "generate_date"
    /\ ret' = generate_date(call.args[1], call.args[2], call.add_issue, call.r)
    /\ ndefects' = ndefects + Bit(TookIssueBranch)
    /\ pc' = "returned"
    /\ UNCHANGED <<runVars, call, big>>

NextFields == call_generate_email \/ call_generate_phone \/ call_generate_date

SpecFields == InitFields /\ [][NextFields]_vars


(***************************************************************************)
(* generate_accounts of src/Sampledata.py over a large customer            *)
(* collection.  The collection generate_customers(count) returns is held   *)
(* as big = [n |-> count, blank |-> the positions whose customer_id was    *)
(* suppressed]; its k-th record is the one the loop builds at i = k - 1.   *)
(***************************************************************************)
\* most accounts the model generates from a large customer collection
MaxBigAccounts == 2

\* the customer counts of the large runs
BIG_COUNTS == {1000, 899999, 900000, 999999}

\* the draws of generate_customers at position pos of the large collection
BigCustomerDraws(pos) ==
    [k |-> pos, id_missing |-> pos \in big.blank, first_missing |-> FALSE,
     last_missing |-> FALSE, add_issues |-> FALSE, email_bad |-> FALSE,
     phone_bad |-> FALSE, dob_bad |-> FALSE, country_missing |-> FALSE]

\* customers, as generate_customers(big.n) built it
BigCustomers == [pos \in 1..big.n |-> Customer(pos - 1, BigCustomerDraws(pos))]

\* the positions random.choice(customers) is sampled at
BigChoices == {1, big.n} \cup {pos \in {900000} : pos <= big.n}

InitOrphan ==
    /\ variant = "defect"
    /\ \E n \in BIG_COUNTS :
           /\ cfg = [count |-> n, ratio |-> <<3, 2>>, tpa |-> 0, days |-> 0, fxdays |-> 0]
           /\ big \in [n : {n}, blank : SUBSET {1, n}]
    /\ pc = "accounts"
    /\ customers = <<>>
    /\ accounts = <<>>
    /\ transactions = <<>>
    /\ daily_balances = <<>>
    /\ fx_rates = <<>>
    /\ acct = 0
    /\ day = 0
    /\ base_balance = 0
    /\ walk = <<>>
    /\ orphans = {}
    /\ fx_day = 0
    /\ fx_cur = 1
    /\ ndefects = 0
    /\ files = <<>>
    /\ failed = NoFailure
    /\ call = NoCall
    /\ ret = ""

\* Sampledata.generate_accounts: one iteration, over the large collection
big_generate_accounts ==
    /\ pc = "accounts"
    /\ Len(accounts) < Min(MaxBigAccounts, AccountCount(big.n, cfg.ratio))
    /\ \E d \in [k : 1..3, orphan : BOOLEAN, c : BigChoices, id_missing : BOOLEAN] :
           /\ d.orphan => d.c = 1
           /\ accounts' = Append(accounts, Account(BigCustomers, Len(accounts), d))
           /\ ndefects' = ndefects + AccountDefects(d)
           /\ orphans' = IF d.orphan THEN orphans \cup {Len(accounts) + 1} ELSE orphans
    /\ UNCHANGED <<variant, pc, cfg, customers, transactions, daily_balances, fx_rates,
                   balanceVars, fxVars, files, failed,
                   fieldVars>>

NextOrphan == big_generate_accounts

SpecOrphan == InitOrphan /\ [][NextOrphan]_vars


(***************************************************************************)
(* Properties.                                                             *)
(***************************************************************************)
\* the stages of main() that come after stage p
After(p) ==
    CASE p = "customers" ->
             {"accounts", "transactions", "daily_balances", "fx_rates", "write", "done"}
      [] p = "accounts" -> {"transactions", "daily_balances", "fx_rates", "write", "done"}
      [] p = "transactions" -> {"daily_balances", "fx_rates", "write", "done"}
      [] p = "daily_balances" -> {"fx_rates", "write", "done"}
      [] p = "fx_rates" -> {"write", "done"}

\* floor(n * num / den), from its definition
Floor(n, ratio) ==
    CHOOSE m \in 0..(n * ratio[1]) :
        m * ratio[2] <= n * ratio[1] /\ n * ratio[1] < (m + 1) * ratio[2]

\* the arguments main() passes
MAIN_ARGS == [count |-> 1000, ratio |-> <<3, 2>>, tpa |-> 10, days |-> 30, fxdays |-> 90]

\* the five row counts the claim gives for arguments c
ClaimedRows(c) ==
    LET a == Floor(c.count, c.ratio)
    IN  <<c.count, a, a * c.tpa, a * c.days, c.fxdays * 7>>

\* C1: a run with customer count C, ratio R, T transactions per account, balance
\* window D and FX window F leaves exactly C customers, floor(C*R) accounts,
\* floor(C*R)*T transactions, floor(C*R)*D daily balances and F*7 FX rates,
\* whatever was drawn; with main's arguments 1000, 1500, 15000, 45000 and 630.
C1_RowCounts ==
    /\ LET rows == ClaimedRows(cfg)
       IN  /\ pc \in After("customers") => Len(customers) = rows[1]
           /\ pc \in After("accounts") => Len(accounts) = rows[2]
           /\ pc \in After("transactions") => Len(transactions) = rows[3]
           /\ pc \in After("daily_balances") => Len(daily_balances) = rows[4]
           /\ pc \in After("fx_rates") => Len(fx_rates) = rows[5]
    /\ pc = "mkdir" =>
           /\ ClaimedRows(MAIN_ARGS) = <<1000, 1500, 15000, 45000, 630>>
           /\ AccountCount(MAIN_ARGS.count, MAIN_ARGS.ratio) = 1500
           /\ PureAccountCount(MAIN_ARGS.count, MAIN_ARGS.ratio) = 1500

C1_Witness ==
    /\ pc = "done"
    /\ variant = "defect"
    /\ ndefects > 0
    /\ Len(accounts) >= 2
    /\ Len(transactions) > 0
    /\ Len(daily_balances) > 0

IdsOf(coll, field) == {coll[j][field] : j \in 1..Len(coll)}

PureValidCustomer(r) ==
    /\ r.customer_id # ""
    /\ r.first_name \in Range(PURE_FIRST_NAMES)
    /\ r.last_name \in Range(PURE_LAST_NAMES)
    /\ ValidEmail(r.email)
    /\ ValidPhone(r.phone)
    /\ ValidDate(r.date_of_birth)
    /\ r.country \in Range(PURE_COUNTRIES)
    /\ r.kyc_status \in Range(PURE_KYC_STATUSES)
    /\ ValidDate(r.created_date)
    /\ ValidDate(r.last_updated)

PureValidAccount(r) ==
    /\ r.account_id # ""
    /\ r.customer_id # ""
    /\ r.account_type \in Range(PURE_ACCOUNT_TYPES)
    /\ IsDecimal(r.balance)
    /\ r.currency \in Range(PURE_CURRENCIES)
    /\ r.status \in Range(PURE_ACCOUNT_STATUSES)
    /\ ValidDate(r.opened_date)
    /\ ValidDate(r.last_transaction_date)

PureValidTransaction(r) ==
    /\ r.transaction_id # ""
    /\ r.account_id # ""
    /\ r.transaction_type \in Range(PURE_TRANSACTION_TYPES)
    /\ IsDecimal(r.amount)
    /\ r.currency \in Range(PURE_CURRENCIES)
    /\ ValidDate(r.transaction_date)
    /\ r.description # ""
    /\ r.status \in Range(PURE_TRANSACTION_STATUSES)

PureValidBalance(r) ==
    /\ r.balance_id # ""
    /\ r.account_id # ""
    /\ ValidDate(r.balance_date)
    /\ IsDecimal(r.opening_balance)
    /\ IsDecimal(r.closing_balance)
    /\ r.currency \in Range(PURE_CURRENCIES)

PureValidFxRate(r) ==
    /\ r.rate_id # ""
    /\ r.from_currency = "USD"
    /\ r.to_currency \in Range(PURE_CURRENCIES)
    /\ IsDecimal(r.exchange_rate)
    /\ r.exchange_rate \notin Range(RateIssues)
    /\ ValidDate(r.rate_date)
    /\ r.source \in Range(PURE_FX_SOURCES)

\* C2: in the pure variant every account's customer_id is a generated customer's,
\* every transaction's and daily balance's account_id is a generated account's, and
\* no record has an empty identifier or an empty or ill-formed field.
C2_PureIsClean ==
    variant = "pure" =>
        /\ \A j \in 1..Len(accounts) :
               accounts[j].customer_id \in IdsOf(customers, "customer_id")
        /\ \A j \in 1..Len(transactions) :
               transactions[j].account_id \in IdsOf(accounts, "account_id")
        /\ \A j \in 1..Len(daily_balances) :
               daily_balances[j].account_id \in IdsOf(accounts, "account_id")
        /\ \A j \in 1..Len(customers) : PureValidCustomer(customers[j])
        /\ \A j \in 1..Len(accounts) : PureValidAccount(accounts[j])
        /\ \A j \in 1..Len(transactions) : PureValidTransaction(transactions[j])
        /\ \A j \in 1..Len(daily_balances) : PureValidBalance(daily_balances[j])
        /\ \A j \in 1..Len(fx_rates) : PureValidFxRate(fx_rates[j])

C2_Witness ==
    /\ variant = "pure"
    /\ pc = "done"
    /\ Len(customers) = 1
    /\ Len(accounts) = 2
    /\ Len(transactions) = 2
    /\ Len(daily_balances) = 2

\* C6: in both variants every transaction has a generated account with the same
\* account_id and the same currency, also when that account_id is blank.
C6_TransactionHasAccount ==
    \A j \in 1..Len(transactions) :
        \E a \in 1..Len(accounts) :
            /\ accounts[a].account_id = transactions[j].account_id
            /\ accounts[a].currency = transactions[j].currency

C6_Witness ==
    /\ variant = "defect"
    /\ \E j \in 1..Len(transactions) : transactions[j].account_id = ""
    /\ \E a, b \in 1..Len(accounts) : accounts[a].currency # accounts[b].currency


\* records n and n + 1 are consecutive records of one account
SameWalk(n) == n + 1 <= Len(walk) /\ walk[n].acct = walk[n + 1].acct

\* C4 as claimed: day 0 opens at the account's nominal balance, every record's
\* closing_balance equals its opening_balance plus that day's delta, and the next
\* record of the account opens at this record's closing balance.
C4_AsClaimed ==
    \A n \in 1..Len(daily_balances) :
        /\ walk[n].day = 0 =>
               daily_balances[n].opening_balance = accounts[walk[n].acct].balance
        /\ Float2(daily_balances[n].closing_balance)
               = Float2(daily_balances[n].opening_balance) + walk[n].change
        /\ SameWalk(n) =>
               daily_balances[n + 1].opening_balance = daily_balances[n].closing_balance

\* C4, amended: day 0 opens at the account's nominal balance; opening_balance and
\* closing_balance are the two-decimal renderings of the running balance and of the
\* running balance plus the day's delta, so closing equals opening plus delta to
\* within one cent; the next record of the account opens at this record's closing
\* balance; the running balance restarts from the nominal balance at each account.
C4_RandomWalk ==
    \A n \in 1..Len(daily_balances) :
        /\ walk[n].day = 0 =>
               /\ daily_balances[n].opening_balance = accounts[walk[n].acct].balance
               /\ walk[n].base = Float2(accounts[walk[n].acct].balance)
        /\ daily_balances[n].opening_balance = Fmt2(walk[n].base)
        /\ daily_balances[n].closing_balance = Fmt2(walk[n].base + walk[n].change)
        /\ Abs(Float2(daily_balances[n].closing_balance)
                   - Float2(daily_balances[n].opening_balance) - walk[n].change) <= 10
        /\ SameWalk(n) =>
               /\ walk[n + 1].day = walk[n].day + 1
               /\ walk[n + 1].base = walk[n].base + walk[n].change
               /\ daily_balances[n + 1].opening_balance
                      = daily_balances[n].closing_balance

C4_Witness ==
    /\ Len(accounts) >= 2
    /\ Len(daily_balances) = 2 * Len(accounts)
    /\ \E n \in 1..Len(walk) : ~SameWalk(n) /\ n < Len(walk)
    /\ \E n \in 1..Len(walk) :
           Float2(daily_balances[n].closing_balance)
               # Float2(daily_balances[n].opening_balance) + walk[n].change

\* C5 as claimed: the closing balance of the day-k record equals the opening balance
\* of the day-(k+1) record plus the day-(k+1) delta.
C5_AsClaimed ==
    \A n \in 1..Len(daily_balances) :
        SameWalk(n) =>
            Float2(daily_balances[n].closing_balance)
                = Float2(daily_balances[n + 1].opening_balance) + walk[n + 1].change

\* C5, amended: the closing balance of the day-k record equals the opening balance of
\* the day-(k+1) record, and the day-(k+1) delta added to it gives the day-(k+1)
\* record's closing balance to within one cent.
C5_ClosingFeedsOpening ==
    \A n \in 1..Len(daily_balances) :
        SameWalk(n) =>
            /\ Float2(daily_balances[n].closing_balance)
                   = Float2(daily_balances[n + 1].opening_balance)
            /\ Abs(Float2(daily_balances[n + 1].closing_balance)
                       - Float2(daily_balances[n].closing_balance)
                       - walk[n + 1].change) <= 10

C5_Witness ==
    \E n \in 1..Len(daily_balances) :
        /\ SameWalk(n)
        /\ walk[n].day = 0
        /\ walk[n + 1].change # 0
        /\ n + 2 <= Len(walk)
        /\ SameWalk(n + 1)

\* C8 as claimed: in the defect variant every daily-balance record has a non-empty
\* balance_id and account_id, a valid date, decimal balances and an enum currency.
C8_AsClaimed ==
    variant = "defect" =>
        \A n \in 1..Len(daily_balances) :
            /\ daily_balances[n].balance_id # ""
            /\ daily_balances[n].account_id # ""
            /\ ValidDate(daily_balances[n].balance_date)
            /\ IsDecimal(daily_balances[n].opening_balance)
            /\ IsDecimal(daily_balances[n].closing_balance)
            /\ daily_balances[n].currency \in Range(CURRENCIES)

\* C8, amended: generate_daily_balances injects no defect of its own: balance_id is
\* non-empty, the date valid, the balances decimal, the currency from the enum, and
\* account_id is its account's account_id, empty exactly when generate_accounts
\* suppressed that account's identifier.
C8_NoOwnDefects ==
    variant = "defect" =>
        \A n \in 1..Len(daily_balances) :
            /\ daily_balances[n].balance_id # ""
            /\ daily_balances[n].account_id = accounts[walk[n].acct].account_id
            /\ ValidDate(daily_balances[n].balance_date)
            /\ IsDecimal(daily_balances[n].opening_balance)
            /\ IsDecimal(daily_balances[n].closing_balance)
            /\ daily_balances[n].currency \in Range(CURRENCIES)
            /\ daily_balances[n].currency = accounts[walk[n].acct].currency

C8_Witness ==
    /\ variant = "defect"
    /\ \E n \in 1..Len(daily_balances) : daily_balances[n].account_id = ""
    /\ \E n \in 1..Len(daily_balances) : daily_balances[n].account_id # ""

\* k in decimal, left-padded with zeros to width (at most ten) and never truncated
Padded(k, width) ==
    LET s == Str(k)
    IN  IF Len(s) >= width THEN s ELSE SubSeq("0000000000", 1, width - Len(s)) \o s

\* id is prefix followed by k zero-padded to width
IsNumbered(id, prefix, width, k) == id = prefix \o Padded(k, width)

\* the k-th record's identifier is empty (if it may be) or numbered k, and the
\* non-empty identifiers are pairwise distinct
WellNumbered(coll, field, prefix, width, may_be_empty) ==
    /\ \A k \in 1..Len(coll) :
           \/ may_be_empty /\ coll[k][field] = ""
           \/ IsNumbered(coll[k][field], prefix, width, k)
    /\ \A j, k \in 1..Len(coll) :
           j # k /\ coll[j][field] # "" => coll[j][field] # coll[k][field]

\* C10: in every collection the k-th record's identifier is empty (customer_id,
\* account_id and transaction_id of the defect variant only) or the entity prefix
\* followed by k zero-padded to the fixed width; non-empty identifiers are pairwise
\* distinct; balance_id and rate_id are never empty and number the records 1, 2, ...
C10_Identifiers ==
    /\ WellNumbered(customers, "customer_id", "CUST", 6, variant = "defect")
    /\ WellNumbered(accounts, "account_id", "ACC", 8, variant = "defect")
    /\ WellNumbered(transactions, "transaction_id", "TXN", 10, variant = "defect")
    /\ WellNumbered(daily_balances, "balance_id", "BAL", 10, FALSE)
    /\ WellNumbered(fx_rates, "rate_id", "FX", 8, FALSE)

C10_Witness ==
    /\ variant = "defect"
    /\ Len(accounts) = 2
    /\ accounts[1].account_id = ""
    /\ accounts[2].account_id = "ACC00000002"
    /\ Len(daily_balances) = 2 * Len(accounts)
    /\ daily_balances[Len(daily_balances)].balance_id # ""


Last(seq) == seq[Len(seq)]

\* the records a clean iteration of the defect variant can append
CleanCustomers(i) == {Customer(i, d) : d \in {e \in CustomerDraws(i) : CustomerDefects(e) = 0}}

CleanAccounts(custs, i) ==
    {Account(custs, i, d) : d \in {e \in AccountDraws(custs, i) : AccountDefects(e) = 0}}

CleanTransactions(accs, i) ==
    {Transaction(accs, i, d) :
         d \in {e \in TransactionDraws(accs, i) : TransactionDefects(e) = 0}}

CleanFxRates(n, dayno, cur) ==
    {FxRate(n, dayno, cur, d) : d \in {e \in FxDraws(n) : FxDefects(e) = 0}}

\* a step of the defect variant in a run where no defect draw has fired appends a
\* record, or writes a file, that the pure variant can append or write in this state
DefectStepIsPure ==
    /\ Len(customers') > Len(customers) =>
           Last(customers')
               \in {PureCustomer(Len(customers), k) : k \in KSet(Len(customers))}
    /\ Len(accounts') > Len(accounts) =>
           Last(accounts')
               \in {PureAccount(customers, Len(accounts), d) :
                        d \in PureAccountDraws(customers, Len(accounts))}
    /\ Len(transactions') > Len(transactions) =>
           Last(transactions')
               \in {PureTransaction(accounts, Len(transactions), d) :
                        d \in PureTransactionDraws(accounts, Len(transactions))}
    /\ Len(daily_balances') > Len(daily_balances) =>
           Last(daily_balances')
               \in {PureDailyBalance(accounts[acct], Len(daily_balances), day,
                                     base_balance, Choice(CHANGE_SAMPLES, k)) :
                        k \in KSet(Len(daily_balances))}
    /\ Len(fx_rates') > Len(fx_rates) =>
           Last(fx_rates')
               \in {PureFxRate(Len(fx_rates), fx_day, fx_cur, k) :
                        k \in KSet(Len(fx_rates))}
    /\ Len(files') > Len(files) =>
           LET n == Len(files')
               pure == WrittenFile(PURE_OUTPUT_DIR, PURE_CSV_FILES[n], Collection(n))
           IN  /\ Last(files').header = pure.header
               /\ Last(files').rows = pure.rows
               /\ Last(files').path = OUTPUT_DIR \o "/" \o PURE_CSV_FILES[n].filename
               /\ Last(files').path # pure.path

\* a step of the pure variant appends a record, or writes a file, that the defect
\* variant can append or write in this state without a defect draw firing
PureStepIsCleanDefect ==
    /\ Len(customers') > Len(customers) =>
           Last(customers') \in CleanCustomers(Len(customers))
    /\ Len(accounts') > Len(accounts) =>
           Last(accounts') \in CleanAccounts(customers, Len(accounts))
    /\ Len(transactions') > Len(transactions) =>
           Last(transactions') \in CleanTransactions(accounts, Len(transactions))
    /\ Len(daily_balances') > Len(daily_balances) =>
           Last(daily_balances')
               \in {DailyBalance(accounts[acct], Len(daily_balances), day, base_balance,
                                 Choice(CHANGE_SAMPLES, k)) :
                        k \in KSet(Len(daily_balances))}
    /\ Len(fx_rates') > Len(fx_rates) =>
           Last(fx_rates') \in CleanFxRates(Len(fx_rates), fx_day, fx_cur)
    /\ Len(files') > Len(files) =>
           LET n == Len(files')
               defect == WrittenFile(OUTPUT_DIR, CSV_FILES[n], Collection(n))
           IN  /\ Last(files').header = defect.header
               /\ Last(files').rows = defect.rows
               /\ Last(files').path = PURE_OUTPUT_DIR \o "/" \o CSV_FILES[n].filename
               /\ Last(files').path # defect.path

C7_Step ==
    /\ AccountCount(Len(customers), cfg.ratio) = PureAccountCount(Len(customers), cfg.ratio)
    /\ TransactionCount(accounts, cfg.tpa) = PureTransactionCount(accounts, cfg.tpa)
    /\ variant = "defect" /\ ndefects' = 0 => DefectStepIsPure
    /\ variant = "pure" => PureStepIsCleanDefect

\* C7: the two variants differ only in defect injection: step by step, from the same
\* collections, a run of the defect variant in which no defect draw fires appends
\* only records the pure variant can append, and the pure variant only records the
\* defect variant can append without a defect; both run their loops the same number
\* of times and write the same file names, headers and rows, under different
\* output directories.
C7_SameDatasets == [][C7_Step]_vars

C7_Witness ==
    /\ variant = "defect"
    /\ pc = "done"
    /\ ndefects = 0
    /\ Len(accounts) >= 2
    /\ Len(transactions) >= 1
    /\ Len(daily_balances) >= 1


\* the literals of the defect branch of the generator called
IssuesOf(c) ==
    CASE c.fn = "generate_email" -> Range(EmailIssues(c.first_name, c.last_name))
      [] c.fn = "generate_phone" -> Range(PhoneIssues)
      [] c.fn = "generate_date" -> Range(DateIssues)

\* v is a valid value of the field the generator called produces
ValidFor(c, v) ==
    CASE c.fn = "generate_email" -> ValidEmail(v)
      [] c.fn = "generate_phone" -> ValidPhone(v)
      [] c.fn = "generate_date" -> ValidDate(v)

\* C9 as claimed: a call that takes the defect path returns one of the fixed defect
\* literals, none of which is a valid value of the field; a call that takes the clean
\* path returns a valid value.
C9_AsClaimed ==
    pc = "returned" =>
        /\ TookIssueBranch => ret \in IssuesOf(call) /\ ~ValidFor(call, ret)
        /\ ~TookIssueBranch => ValidFor(call, ret)

\* the year of a valid date
YearOf(v) == ParseNat(SubSeq(v, 1, 4))

\* C9, amended: a call that takes the defect path returns one of the fixed defect
\* literals and a call that takes the clean path returns a valid value that is none
\* of them; every defect literal is an invalid value of its field except the date
\* literal 2099-12-31, which is a well-formed calendar date, later than any date the
\* clean path returns.
C9_ExclusivePaths ==
    pc = "returned" =>
        /\ TookIssueBranch =>
               /\ ret \in IssuesOf(call)
               /\ ret # "2099-12-31" => ~ValidFor(call, ret)
               /\ ret = "2099-12-31" => call.fn = "generate_date" /\ ValidDate(ret)
        /\ ~TookIssueBranch =>
               /\ ValidFor(call, ret)
               /\ ret \notin IssuesOf(call)
               /\ call.fn = "generate_date" => YearOf(ret) < YearOf("2099-12-31")

C9_Witness ==
    /\ pc = "returned"
    /\ call.fn = "generate_date"
    /\ TookIssueBranch
    /\ ret = "2099-12-31"
    /\ ValidDate(ret)

\* C3: whenever generate_accounts takes the orphan branch, the customer_id it assigns
\* is the customer_id of no generated customer, whatever the customer count.  (A
\* customer_id is empty or CUST followed by the customer's position, so the only
\* customer that can carry the assigned identifier is the one at the position its
\* digits name.)
C3_OrphanMatchesNoCustomer ==
    \A j \in orphans :
        LET id == accounts[j].customer_id
            pos == ParseNat(SubSeq(id, 5, Len(id)))
        IN  ~(pos \in 1..big.n /\ BigCustomers[pos].customer_id = id)


\* the positions of main, in program order
PHASES ==
    <<"mkdir", "customers", "accounts", "transactions", "daily_balances", "fx_rates",
      "write", "done">>

PhaseNo(p) == CHOOSE n \in 1..Len(PHASES) : PHASES[n] = p

\* the five collections
Generated == <<customers, accounts, transactions, daily_balances, fx_rates>>

\* one step of main keeps the order of generation, writing and summary
C11_Step ==
    /\ pc' # pc => Aborted' \/ PhaseNo(pc') = PhaseNo(pc) + 1
    /\ customers' # customers => pc = "customers" /\ pc' = "customers"
    /\ accounts' # accounts =>
           /\ pc = "accounts" /\ pc' = "accounts"
           /\ Len(customers) = cfg.count
           /\ Last(accounts').customer_id \in IdsOf(customers, "customer_id")
                  \/ Len(accounts') \in orphans'
    /\ transactions' # transactions =>
           /\ pc = "transactions" /\ pc' = "transactions"
           /\ Len(accounts) = AccountTarget
           /\ Last(transactions').account_id \in IdsOf(accounts, "account_id")
    /\ daily_balances' # daily_balances =>
           /\ pc = "daily_balances" /\ pc' = "daily_balances"
           /\ Len(transactions) = TransactionTarget
           /\ Last(daily_balances').account_id \in IdsOf(accounts, "account_id")
    /\ fx_rates' # fx_rates =>
           /\ pc = "fx_rates" /\ pc' = "fx_rates"
           /\ Len(daily_balances) = Len(accounts) * cfg.days
    /\ files' # files =>
           /\ pc = "write" /\ pc' = "write"
           /\ Generated' = Generated
           /\ Len(fx_rates) = cfg.fxdays * Len(BASE_RATES)
           /\ Len(files') = Len(files) + 1
           /\ SubSeq(files', 1, Len(files)) = files
           /\ Last(files').rows
                  = [j \in 1..Len(Collection(Len(files'))) |->
                         Row(Collection(Len(files'))[j], Last(files').header)]
           /\ \A j \in 1..Len(files) : files[j].path # Last(files').path
    /\ pc' = "done" =>
           /\ pc = "write"
           /\ files' = files
           /\ Len(files) = 5
           /\ Cardinality({files[j].path : j \in 1..Len(files)}) = 5

\* C11: in every run of main the collections are generated in the order customers,
\* accounts, transactions, daily balances, FX rates, each complete before the next
\* starts, accounts from the finished customers, transactions and daily balances from
\* the finished accounts; no file is written before all five collections are complete;
\* each collection is written once, to a file of its own; the summary comes only
\* after all five files are written.
C11_MainOrder == [][C11_Step]_vars

C11_Witness ==
    /\ pc = "done"
    /\ Len(files) = 5
    /\ Len(files[1].rows) = 1
    /\ Len(files[2].rows) = 2
    /\ Len(files[3].rows) = 2
    /\ Len(files[4].rows) = 2
    /\ failed = NoFailure


\* the file main's j-th write_csv call leaves when it succeeds
FileOf(j) ==
    IF variant = "pure"
    THEN WrittenFile(PURE_OUTPUT_DIR, PURE_CSV_FILES[j], Collection(j))
    ELSE WrittenFile(OUTPUT_DIR, CSV_FILES[j], Collection(j))

\* one step of main stops at an I/O error and touches nothing after it
C12_Step ==
    /\ ~Aborted
    /\ failed' # failed => failed = NoFailure /\ Aborted'
    /\ pc' = "done" => failed' = NoFailure
    /\ Aborted' =>
           /\ failed' # NoFailure
           /\ files' = files
           /\ Generated' = Generated
           /\ failed'.op \in {"mkdir", "write_csv"}
           /\ failed'.op = "mkdir" =>
                  /\ pc = "mkdir"
                  /\ Generated' = <<<<>>, <<>>, <<>>, <<>>, <<>>>>
                  /\ files' = <<>>
           /\ failed'.op = "write_csv" =>
                  /\ pc = "write"
                  /\ failed'.n = Len(files) + 1
                  /\ failed'.n \in 1..5
                  /\ failed'.path = FileOf(failed'.n).path
                  /\ \A j \in 1..Len(files') :
                         files'[j] = FileOf(j) /\ files'[j].path # failed'.path

\* C12: an I/O error ends the run at once, with no retry and no cleanup: when creating
\* the output directory fails nothing is generated or written; when the k-th write
\* fails the run takes no further step, so the write is not retried, no later file is
\* written and the summary is not printed, and the k-1 files written before it stay
\* as they were written.
C12_IoFailureAborts == [][C12_Step]_vars

C12_Witness ==
    /\ Aborted
    /\ failed.op = "write_csv"
    /\ failed.n = 3
    /\ Len(files) = 2
    /\ Len(files[2].rows) = 2
    /\ Len(transactions) = 2

====
